---- MODULE Spec2Model ----
(***************************************************************************)
(* Model of the minimal RunPod worker for Automatic1111                    *)
(* (src/rp_handler_minimal.py): the dispatcher `handler`, the readiness    *)
(* probe `wait_for_service`, the forwarder `automatic_functions` with      *)
(* `send_get_request` / `send_post_request`, and the local helpers.        *)
(*                                                                         *)
(* One call of one module-level function is modelled: `entry` names the    *)
(* function the caller invoked, `stack` the frames live below it, `pc` the *)
(* position in the top frame.  The network and the file system answer      *)
(* nondeterministically; every outbound request and every sleep is         *)
(* appended to `trace`.                                                    *)
(***************************************************************************)
EXTENDS Integers, Sequences, FiniteSets, TLC

VARIABLES
    entry,             \* the function the caller invoked
    event,             \* the job document / the arguments of the call
    serviceAvailable,  \* whether the backing service listens on BASE_URI
    stack,             \* call stack, innermost frame last
    pc,                \* position in the innermost frame
    retries,           \* wait_for_service: local `retries`
    notices,           \* wait_for_service: 'Service not ready yet' log lines
    attempt,           \* send_post_request: loop variable `attempt`
    response,          \* automatic_functions: local `response`
    e,                 \* handler: the exception bound by `except Exception as e`
    fs,                \* the file system under file_path: directory, file, chunks written
    remaining,         \* download_file_from_url: chunks the response has yet to yield
    trace,             \* every outbound request and sleep, in order
    result,            \* what the caller got: nothing yet, a value, or an exception
    other              \* the locals of a second call running at the same time, if any

vars == <<entry, event, serviceAvailable, stack, pc, retries, notices, attempt,
          response, e, fs, remaining, trace, result, other>>

-----------------------------------------------------------------------------
(* Program constants *)

POST_RETRIES == 3

BASE_URI == "http://127.0.0.1:3000"

(* Bounds of the model *)

\* wait_for_service loops without bound; the model stops failing probes here.
MaxProbeFailures == 3

\* the longest download, in chunks of 8192 bytes
MaxChunks == 2

-----------------------------------------------------------------------------
(* Python values *)

None == [tag |-> "None"]

NoExc == [type |-> "-", key |-> "-", at |-> 0]

KeyError(k) == [type |-> "KeyError", key |-> k, at |-> 0]

AttributeError == [type |-> "AttributeError", key |-> "-", at |-> 0]

NoResponse == [id |-> 0, status |-> 0, body |-> "-"]

\* A dict with the single key 'error'.
ErrorDict(msg) == [kind |-> "error", error |-> msg]

\* str(e) of an exception: identified with the exception itself.
str(x) == x

Returned(v) == [tag |-> "return", value |-> v, exc |-> NoExc]

Raised(x) == [tag |-> "raise", value |-> None, exc |-> x]

NoResult == [tag |-> "none", value |-> None, exc |-> NoExc]

\* no second call at the same time
NoCall == [entry |-> "-"]

-----------------------------------------------------------------------------
(* Job documents.  An endpoint is its path split at '/'. *)

EP_TXT2IMG == <<"sdapi", "v1", "txt2img">>
EP_SLASH_TXT2IMG == <<"", "sdapi", "v1", "txt2img">>
EP_IMG2IMG == <<"sdapi", "v1", "img2img">>
EP_INTERROGATE == <<"sdapi", "v1", "interrogate">>
EP_OPTIONS == <<"sdapi", "v1", "options">>
EP_SYNC == <<"v1", "sync">>
EP_DOWNLOAD == <<"v1", "download">>
EP_V1_OTHER == <<"v1", "other">>
EP_INVALID == <<"invalid", "endpoint">>

Endpoints == {EP_TXT2IMG, EP_SLASH_TXT2IMG, EP_OPTIONS, EP_SYNC, EP_DOWNLOAD,
              EP_V1_OTHER, EP_INVALID}

Methods == {"GET", "POST", "PUT"}

\* payload: "absent" (no key), "ok" (satisfies the schema of the endpoint and
\* carries the keys its helper reads), "bad" (violates it, a required key missing)
Payloads == {"absent", "ok", "bad"}

\* sampler_name and scheduler are the payload's fields of those names: a string
\* is the sequence of its words and blanks, <<>> and "" stand for a missing key
Event(i, a, m, h, ep, p) ==
    [input |-> i, api |-> a, method |-> m, has_endpoint |-> h, endpoint |-> ep,
     payload |-> p, sampler_name |-> <<>>, scheduler |-> ""]

Events ==
    {Event("absent", "absent", "absent", FALSE, <<>>, "absent"),
     Event("notdict", "absent", "absent", FALSE, <<>>, "absent")}
    \cup {Event("dict", "absent", "absent", FALSE, <<>>, p) : p \in Payloads}
    \cup {Event("dict", "dict", m, FALSE, <<>>, p) :
              m \in Methods \cup {"absent"}, p \in Payloads}
    \cup {Event("dict", "dict", m, TRUE, ep, p) :
              m \in Methods \cup {"absent"}, ep \in Endpoints, p \in Payloads}

\* endpoint.startswith('v1/')
startswith_v1(endpoint) == Len(endpoint) >= 2 /\ endpoint[1] = "v1"

\* f'{BASE_URI}/{endpoint}'
Url(endpoint) == <<BASE_URI>> \o endpoint

-----------------------------------------------------------------------------
(* The schema validator (runpod's validate) and the schemas it is given. *)

RECURSIVE lstrip_slash(_)
\* endpoint.lstrip('/'): every leading empty segment goes
lstrip_slash(endpoint) ==
    IF Len(endpoint) > 1 /\ endpoint[1] = ""
    THEN lstrip_slash(Tail(endpoint))
    ELSE endpoint

KnownEndpoints == {EP_TXT2IMG, EP_IMG2IMG, EP_INTERROGATE, EP_OPTIONS, EP_SYNC,
                   EP_DOWNLOAD}

\* INPUT_SCHEMA: 'api' and 'payload' are required
InputErrors(ev) ==
    (IF ev.api = "absent" THEN <<"api is a required input.">> ELSE <<>>)
    \o (IF ev.payload = "absent" THEN <<"payload is a required input.">> ELSE <<>>)

\* API_SCHEMA: method in {GET, POST}, endpoint a known one (leading '/' stripped)
ApiErrors(ev) ==
    (IF ev.method = "absent" THEN <<"method is a required input.">>
     ELSE IF ev.method \notin {"GET", "POST"} THEN <<"method does not meet the constraints.">>
     ELSE <<>>)
    \o (IF ~ev.has_endpoint THEN <<"endpoint is a required input.">>
        ELSE IF lstrip_slash(ev.endpoint) \notin KnownEndpoints
             THEN <<"endpoint does not meet the constraints.">>
        ELSE <<>>)

\* the payload schema of an endpoint, on the payload abstraction
PayloadErrors(payload) ==
    IF payload = "bad" THEN <<"payload does not meet the schema.">> ELSE <<>>

\* the API descriptor as its schema leaves it: the endpoint normalized
Normalized(ev) ==
    [ev EXCEPT !.endpoint = lstrip_slash(ev.endpoint)]

\* validate(raw_input, schema): a result document in both cases, never None;
\* doc is the input as the schema leaves it
validate(errors, doc) ==
    IF errors # <<>>
    THEN [tag |-> "errors", errors |-> errors]
    ELSE [tag |-> "validated_input", validated_input |-> doc]

validate_api(ev) == validate(ApiErrors(ev), Normalized(ev))

\* a schema selection that has lost its last branch
validate_payload_no_download(ev, endpoint) ==
    IF endpoint = EP_TXT2IMG THEN validate(PayloadErrors(ev.payload), ev)
    ELSE IF endpoint = EP_IMG2IMG THEN validate(PayloadErrors(ev.payload), ev)
    ELSE IF endpoint = EP_INTERROGATE THEN validate(PayloadErrors(ev.payload), ev)
    ELSE IF endpoint = EP_SYNC THEN validate(PayloadErrors(ev.payload), ev)
    ELSE None

validate_payload(ev, endpoint) ==
    IF endpoint = EP_TXT2IMG THEN validate(PayloadErrors(ev.payload), ev)
    ELSE IF endpoint = EP_IMG2IMG THEN validate(PayloadErrors(ev.payload), ev)
    ELSE IF endpoint = EP_INTERROGATE THEN validate(PayloadErrors(ev.payload), ev)
    ELSE IF endpoint = EP_SYNC THEN validate(PayloadErrors(ev.payload), ev)
    ELSE IF endpoint = EP_DOWNLOAD THEN validate(PayloadErrors(ev.payload), ev)
    ELSE None

-----------------------------------------------------------------------------
(* handler, lines 297-332: what the try block does before it calls out. *)

Returns(v) == [op |-> "return", value |-> v, exc |-> NoExc, callee |-> "-"]
Raises(x) == [op |-> "raise", value |-> None, exc |-> x, callee |-> "-"]
Calls(f) == [op |-> "call", value |-> None, exc |-> NoExc, callee |-> f]

\* a test that reads the validator's result: only an error list is a failure
IsFailureErrorsOnly(validation) == validation # None /\ validation.tag = "errors"

\* `<validation> is not None`
IsFailure(validation) == validation # None

\* a dispatcher that routes on the endpoint (read with a default) without validating
handler_try_unvalidated(ev) ==
    IF ev.input = "absent" THEN Raises(KeyError("input"))
    ELSE IF startswith_v1(ev.endpoint) THEN Calls("helper_functions")
    ELSE Calls("wait_for_service")

\* a dispatcher that reads the validator's results but leaves out the API check
handler_try_api_unchecked(ev) ==
    IF ev.input = "absent" THEN Raises(KeyError("input"))
    ELSE IF ev.input = "notdict" THEN Raises(AttributeError)
    ELSE LET input_validation == validate(InputErrors(ev), ev) IN
    IF input_validation.tag = "errors" THEN Returns(ErrorDict(input_validation))
    ELSE IF ~ev.has_endpoint THEN Raises(KeyError("endpoint"))
    ELSE LET payload_validation == validate_payload(ev, ev.endpoint) IN
    IF payload_validation.tag = "errors" THEN Returns(ErrorDict(payload_validation))
    ELSE IF startswith_v1(ev.endpoint) THEN Calls("helper_functions")
    ELSE Calls("wait_for_service")

handler_try(ev) ==
    IF ev.input = "absent" THEN Raises(KeyError("input"))
    ELSE IF ev.input = "notdict" THEN Raises(AttributeError)
    ELSE LET input_validation == validate(InputErrors(ev), ev) IN
    IF IsFailure(input_validation) THEN Returns(ErrorDict(input_validation))
    ELSE IF ev.api = "absent" THEN Raises(KeyError("api"))
    ELSE IF ev.payload = "absent" THEN Raises(KeyError("payload"))
    ELSE IF ~ev.has_endpoint THEN Raises(KeyError("endpoint"))
    ELSE LET api_validation == validate_api(ev) IN
    IF IsFailure(api_validation) THEN Returns(ErrorDict(api_validation))
    ELSE LET payload_validation == validate_payload(ev, ev.endpoint) IN
    IF IsFailure(payload_validation) THEN Returns(ErrorDict(payload_validation))
    ELSE IF startswith_v1(ev.endpoint) THEN Calls("helper_functions")
    ELSE Calls("wait_for_service")

\* an except clause that names the requests exceptions only, as the probe's does
HandlerCatchesRequestException(x) == x.type \in {"ConnectionError", "ReadTimeout"}

\* `except Exception` of handler
HandlerCatches(x) == TRUE

-----------------------------------------------------------------------------
(* The network *)

Response(status, body) ==
    [tag |-> "response", status |-> status, body |-> body, type |-> "-"]

Exception(type) ==
    [tag |-> "exception", status |-> 0, body |-> "-", type |-> type]

Slept(seconds) ==
    [tag |-> "slept", status |-> seconds, body |-> "-", type |-> "-"]

\* what one request to the backing service can come to: a service that is not
\* there refuses the connection; one that is there answers with any status and
\* body, or the request fails on the way
HttpOutcomes ==
    IF serviceAvailable
    THEN {Response(st, b) : st \in {200, 500}, b \in {"json", "text"}}
         \cup {Exception("ConnectionError"), Exception("ReadTimeout")}
    ELSE {Exception("ConnectionError")}

\* the probe reads no body
ProbeOutcomes == {o \in HttpOutcomes : o.body # "text"}

\* the url a request goes to: lines 146, 329 (none kept for the helpers' calls)
UrlOf(op) ==
    IF op \in {"GET", "POST"} THEN Url(event.endpoint)
    ELSE IF op = "probe" THEN Url(EP_OPTIONS)
    ELSE <<>>

Logged(op, o) == Append(trace, [op |-> op, out |-> o, url |-> UrlOf(op)])

\* the response object of the request logged at position n
ResponseOf(n, o) == [id |-> n, status |-> o.status, body |-> o.body]

\* the exception raised by the request logged at position n
ExceptionOf(n, o) == [type |-> o.type, key |-> "-", at |-> n]

-----------------------------------------------------------------------------
(* Calls and returns *)

Top == stack[Len(stack)]

Below == SubSeq(stack, 1, Len(stack) - 1)

Caller == IF Len(stack) > 1 THEN stack[Len(stack) - 1] ELSE "-"

\* the innermost frame returns v
Return(v) ==
    IF Caller = "handler" /\ Top = "wait_for_service"
    THEN \* line 329 returned; line 332 calls automatic_functions
         /\ stack' = Below \o <<"automatic_functions">>
         /\ pc' = "af_route"
         /\ UNCHANGED <<result, response>>
    ELSE IF Caller = "automatic_functions"
    THEN \* lines 149, 151: response = send_..._request(...)
         /\ stack' = Below
         /\ pc' = "af_json"
         /\ response' = v
         /\ UNCHANGED result
    ELSE \* lines 268, 274, 326, 332: every other caller returns the value as
         \* it is, down to the function the caller invoked
         /\ stack' = <<>>
         /\ pc' = "done"
         /\ result' = Returned(v)
         /\ UNCHANGED response

\* an exception leaves the innermost frame: the try block of handler is the
\* only one around a call, so it lands there or at the caller
Raise(x) ==
    IF stack[1] = "handler" /\ pc # "handler_except" /\ HandlerCatches(x)
    THEN /\ stack' = <<"handler">>
         /\ pc' = "handler_except"
         /\ e' = x
         /\ UNCHANGED result
    ELSE /\ stack' = <<>>
         /\ pc' = "done"
         /\ result' = Raised(x)
         /\ UNCHANGED e

-----------------------------------------------------------------------------
(* handler *)

\* a dispatcher whose API validation strips the endpoint's leading '/' in the
\* job itself
HandlerTryStrippingInPlace ==
    /\ pc = "handler_try"
    /\ LET o == handler_try(event) IN
       CASE o.op = "return" -> Return(o.value) /\ UNCHANGED e
         [] o.op = "raise" -> Raise(o.exc) /\ UNCHANGED response
         [] o.op = "call" ->
              /\ stack' = Append(stack, o.callee)
              /\ pc' = IF o.callee = "helper_functions" THEN "hf_route" ELSE "wfs_get"
              /\ UNCHANGED <<result, response, e>>
    /\ event' = IF event.input = "dict" /\ event.has_endpoint THEN Normalized(event) ELSE event
    /\ UNCHANGED <<fs, remaining, other, entry, serviceAvailable, retries, notices, attempt, trace>>

\* lines 297-332
HandlerTry ==
    /\ pc = "handler_try"
    /\ LET o == handler_try(event) IN
       CASE o.op = "return" -> Return(o.value) /\ UNCHANGED e
         [] o.op = "raise" -> Raise(o.exc) /\ UNCHANGED response
         [] o.op = "call" ->
              /\ stack' = Append(stack, o.callee)
              /\ pc' = IF o.callee = "helper_functions" THEN "hf_route" ELSE "wfs_get"
              /\ UNCHANGED <<result, response, e>>
    /\ UNCHANGED <<fs, remaining, other, entry, event, serviceAvailable, retries, notices, attempt, trace>>

\* lines 334-340
HandlerExcept ==
    /\ pc = "handler_except"
    /\ Return(ErrorDict(str(e)))
    /\ UNCHANGED <<fs, remaining, other, entry, event, serviceAvailable, retries, notices, attempt, e, trace>>

-----------------------------------------------------------------------------
(* wait_for_service *)

\* a probe that takes an error status for 'not ready'
ProbeReadyOkOnly(o) == o.tag = "response" /\ o.status < 400

\* requests.get(url) came back without raising: the service is ready
ProbeReady(o) == o.tag = "response"

\* a probe loop that gives up, raising the last failure, at the second failure
WaitProbeGivingUp ==
    /\ pc = "wfs_get"
    /\ \E o \in ProbeOutcomes :
         /\ trace' = Logged("probe", o)
         /\ IF ProbeReady(o)
            THEN Return(None) /\ UNCHANGED <<retries, notices, e>>
            ELSE IF retries + 1 >= 2
            THEN /\ Raise(ExceptionOf(Len(trace) + 1, o))
                 /\ UNCHANGED <<retries, notices, response>>
            ELSE /\ retries' = retries + 1
                 /\ notices' = IF (retries + 1) % 15 = 0 THEN notices + 1 ELSE notices
                 /\ pc' = "wfs_sleep"
                 /\ UNCHANGED <<stack, result, response, e>>
    /\ UNCHANGED <<fs, remaining, other, entry, event, serviceAvailable, attempt>>

\* lines 42-50: one probe
WaitProbe ==
    /\ pc = "wfs_get"
    /\ \E o \in ProbeOutcomes :
         /\ ProbeReady(o) \/ retries < MaxProbeFailures
         /\ trace' = Logged("probe", o)
         /\ IF ProbeReady(o)
            THEN Return(None) /\ UNCHANGED <<retries, notices>>
            ELSE /\ retries' = retries + 1
                 /\ notices' = IF (retries + 1) % 15 = 0 THEN notices + 1 ELSE notices
                 /\ pc' = "wfs_sleep"
                 /\ UNCHANGED <<stack, result, response>>
    /\ UNCHANGED <<fs, remaining, other, entry, event, serviceAvailable, attempt, e>>

\* line 53
WaitSleep ==
    /\ pc = "wfs_sleep"
    /\ trace' = Logged("sleep", Slept(2))
    /\ pc' = "wfs_get"
    /\ UNCHANGED <<fs, remaining, other, entry, event, serviceAvailable, stack, retries, notices, attempt,
                   response, e, result>>

-----------------------------------------------------------------------------
(* send_get_request, send_post_request *)

\* a GET that is sent a second time when the first raises
SendGetRetrying ==
    /\ pc = "get_send"
    /\ \E o \in HttpOutcomes :
         /\ trace' = Logged("GET", o)
         /\ IF o.tag = "response"
            THEN Return(ResponseOf(Len(trace) + 1, o)) /\ UNCHANGED e
            ELSE IF trace = <<>> \/ trace[Len(trace)].op # "GET"
            THEN UNCHANGED <<pc, stack, result, response, e>>
            ELSE Raise(ExceptionOf(Len(trace) + 1, o)) /\ UNCHANGED response
    /\ UNCHANGED <<fs, remaining, other, entry, event, serviceAvailable, retries, notices, attempt>>

\* line 66: one call, nothing around it
SendGet ==
    /\ pc = "get_send"
    /\ \E o \in HttpOutcomes :
         /\ trace' = Logged("GET", o)
         /\ IF o.tag = "response"
            THEN Return(ResponseOf(Len(trace) + 1, o)) /\ UNCHANGED e
            ELSE Raise(ExceptionOf(Len(trace) + 1, o)) /\ UNCHANGED response
    /\ UNCHANGED <<fs, remaining, other, entry, event, serviceAvailable, retries, notices, attempt>>

\* a loop that gives up one attempt early
ShouldRetryOneLess(n) == n < POST_RETRIES - 2

\* a loop that sleeps and goes on after the last attempt too
ShouldRetryOneMore(n) == n <= POST_RETRIES - 1

\* line 85
ShouldRetry(n) == n < POST_RETRIES - 1

\* a loop that takes a response with a server-error status for a failed attempt
PostAttemptRetryingOnStatus ==
    /\ pc = "post_send"
    /\ \E o \in HttpOutcomes :
         /\ trace' = Logged("POST", o)
         /\ IF o.tag = "response" /\ (o.status < 500 \/ ~ShouldRetry(attempt))
            THEN Return(ResponseOf(Len(trace) + 1, o)) /\ UNCHANGED e
            ELSE IF ShouldRetry(attempt)
            THEN /\ pc' = "post_sleep"
                 /\ UNCHANGED <<stack, result, response, e>>
            ELSE Raise(ExceptionOf(Len(trace) + 1, o)) /\ UNCHANGED response
    /\ UNCHANGED <<fs, remaining, other, entry, event, serviceAvailable, retries, notices, attempt>>

\* lines 80-89: one pass of the loop body, up to the sleep
PostAttempt ==
    /\ pc = "post_send"
    /\ \E o \in HttpOutcomes :
         /\ trace' = Logged("POST", o)
         /\ IF o.tag = "response"
            THEN Return(ResponseOf(Len(trace) + 1, o)) /\ UNCHANGED e
            ELSE IF ShouldRetry(attempt)
            THEN /\ pc' = "post_sleep"
                 /\ UNCHANGED <<stack, result, response, e>>
            ELSE Raise(ExceptionOf(Len(trace) + 1, o)) /\ UNCHANGED response
    /\ UNCHANGED <<fs, remaining, other, entry, event, serviceAvailable, retries, notices, attempt>>

\* line 87, and the loop's next value of `attempt`
PostSleep ==
    /\ pc = "post_sleep"
    /\ trace' = Logged("sleep", Slept(1))
    /\ attempt' = attempt + 1
    /\ pc' = "post_send"
    /\ UNCHANGED <<fs, remaining, other, entry, event, serviceAvailable, stack, retries, notices, response,
                   e, result>>

-----------------------------------------------------------------------------
(* automatic_functions *)

\* an error result that leaves the response text out
InvalidResponseNoText(r) ==
    ErrorDict([msg |-> "Invalid response received from Automatic1111 API", text |-> 0])

\* lines 161-163
InvalidResponse(r) ==
    ErrorDict([msg |-> "Invalid response received from Automatic1111 API", text |-> r.id])

\* response.json(): the parsed body of the response
Json(r) == [kind |-> "json", of |-> r.id]

\* lines 144-155
AfRoute ==
    /\ pc = "af_route"
    /\ IF event.method = "absent" THEN Raise(KeyError("method")) /\ UNCHANGED response
       ELSE IF ~event.has_endpoint THEN Raise(KeyError("endpoint")) /\ UNCHANGED response
       ELSE IF event.method = "GET"
       THEN /\ stack' = Append(stack, "send_get_request")
            /\ pc' = "get_send"
            /\ UNCHANGED <<result, response, e>>
       ELSE IF event.method = "POST"
       THEN /\ stack' = Append(stack, "send_post_request")
            /\ pc' = "post_send"
            /\ UNCHANGED <<result, response, e>>
       ELSE Return(ErrorDict([msg |-> "Invalid method", method |-> event.method]))
            /\ UNCHANGED e
    /\ attempt' = 0
    /\ UNCHANGED <<fs, remaining, other, entry, event, serviceAvailable, retries, notices, trace>>

\* lines 157-163
AfJson ==
    /\ pc = "af_json"
    /\ IF response.body = "json"
       THEN Return(Json(response))
       ELSE Return(InvalidResponse(response))
    /\ UNCHANGED <<fs, remaining, other, entry, event, serviceAvailable, retries, notices, attempt, e, trace>>


-----------------------------------------------------------------------------
(* helper_functions, download_file_from_url, sync_huggingface_model *)

StatusError(msg, x) == [kind |-> "status", status |-> "error", message |-> msg, exc |-> x]

\* lines 198-203
DownloadSuccess(size) ==
    [kind |-> "status", status |-> "success", message |-> "downloaded",
     file_path |-> "file_path/file_name", file_size_mb |-> size]

\* lines 237-245
SyncSuccess ==
    [kind |-> "status", status |-> "success", message |-> "synced",
     model_info |-> {"id", "downloads", "likes"}]

OSError(at) == [type |-> "OSError", key |-> "-", at |-> at]

\* a helper router that hands an endpoint it does not know to the forwarder
HfRouteForwardingUnknown ==
    /\ pc = "hf_route"
    /\ IF ~event.has_endpoint THEN Raise(KeyError("endpoint")) /\ UNCHANGED response
       ELSE IF event.endpoint = EP_DOWNLOAD /\ event.payload = "ok"
       THEN /\ stack' = Append(stack, "download_file_from_url")
            /\ pc' = "dl_get"
            /\ UNCHANGED <<result, response, e>>
       ELSE IF event.endpoint = EP_SYNC /\ event.payload = "ok"
       THEN /\ stack' = Append(stack, "sync_huggingface_model")
            /\ pc' = "sync_info"
            /\ UNCHANGED <<result, response, e>>
       ELSE /\ stack' = Append(stack, "automatic_functions")
            /\ pc' = "af_route"
            /\ UNCHANGED <<result, response, e>>
    /\ UNCHANGED <<fs, remaining, other, entry, event, serviceAvailable, retries, notices,
                   attempt, trace>>

\* lines 265-281
HfRoute ==
    /\ pc = "hf_route"
    /\ IF ~event.has_endpoint THEN Raise(KeyError("endpoint")) /\ UNCHANGED response
       ELSE IF event.endpoint = EP_DOWNLOAD
       THEN IF event.payload # "ok"
            THEN Raise(KeyError("file_url")) /\ UNCHANGED response
            ELSE /\ stack' = Append(stack, "download_file_from_url")
                 /\ pc' = "dl_get"
                 /\ UNCHANGED <<result, response, e>>
       ELSE IF event.endpoint = EP_SYNC
       THEN IF event.payload # "ok"
            THEN Raise(KeyError("model_id")) /\ UNCHANGED response
            ELSE /\ stack' = Append(stack, "sync_huggingface_model")
                 /\ pc' = "sync_info"
                 /\ UNCHANGED <<result, response, e>>
       ELSE Return(ErrorDict([msg |-> "Invalid helper endpoint", endpoint |-> event.endpoint]))
            /\ UNCHANGED e
    /\ UNCHANGED <<fs, remaining, other, entry, event, serviceAvailable, retries, notices,
                   attempt, trace>>

\* what the remote file server can come to
DownloadOutcomes ==
    {Response(200, "bytes"), Response(404, "bytes"), Exception("ConnectionError")}

\* a download that makes the destination directory before it asks for the file
DownloadGetMakingDirFirst ==
    /\ pc = "dl_get"
    /\ fs' = [fs EXCEPT !.dir = TRUE]
    /\ \E o \in DownloadOutcomes, n \in 0..MaxChunks :
         /\ trace' = Logged("download", o)
         /\ IF o.tag = "exception"
            THEN /\ Return(StatusError("Failed to download file", ExceptionOf(Len(trace) + 1, o)))
                 /\ UNCHANGED remaining
            ELSE IF o.status >= 400
            THEN /\ Return(StatusError("Failed to download file",
                                       [type |-> "HTTPError", key |-> "-", at |-> Len(trace) + 1]))
                 /\ UNCHANGED remaining
            ELSE /\ pc' = "dl_mkdir"
                 /\ remaining' = n
                 /\ UNCHANGED <<stack, result, response>>
    /\ UNCHANGED <<other, entry, event, serviceAvailable, retries, notices, attempt, e>>

\* a download that goes on whatever the status of the response
DownloadGetAnyStatus ==
    /\ pc = "dl_get"
    /\ \E o \in DownloadOutcomes, n \in 0..MaxChunks :
         /\ trace' = Logged("download", o)
         /\ IF o.tag = "exception"
            THEN /\ Return(StatusError("Failed to download file", ExceptionOf(Len(trace) + 1, o)))
                 /\ UNCHANGED remaining
            ELSE /\ pc' = "dl_mkdir"
                 /\ remaining' = n
                 /\ UNCHANGED <<stack, result, response>>
    /\ UNCHANGED <<fs, other, entry, event, serviceAvailable, retries, notices, attempt, e>>

\* lines 182-183: the request and raise_for_status()
DownloadGet ==
    /\ pc = "dl_get"
    /\ \E o \in DownloadOutcomes, n \in 0..MaxChunks :
         /\ trace' = Logged("download", o)
         /\ IF o.tag = "exception"
            THEN /\ Return(StatusError("Failed to download file", ExceptionOf(Len(trace) + 1, o)))
                 /\ UNCHANGED remaining
            ELSE IF o.status >= 400
            THEN /\ Return(StatusError("Failed to download file",
                                       [type |-> "HTTPError", key |-> "-", at |-> Len(trace) + 1]))
                 /\ UNCHANGED remaining
            ELSE /\ pc' = "dl_mkdir"
                 /\ remaining' = n
                 /\ UNCHANGED <<stack, result, response>>
    /\ UNCHANGED <<fs, other, entry, event, serviceAvailable, retries, notices, attempt, e>>

\* lines 185-186
DownloadMkdir ==
    /\ pc = "dl_mkdir"
    /\ \E ok \in BOOLEAN :
         IF fs.dir
         THEN /\ ok
              /\ pc' = "dl_open"
              /\ UNCHANGED <<fs, stack, result, response>>
         ELSE IF ok
         THEN /\ fs' = [fs EXCEPT !.dir = TRUE]
              /\ pc' = "dl_open"
              /\ UNCHANGED <<stack, result, response>>
         ELSE Return(StatusError("Failed to download file", OSError(186))) /\ UNCHANGED fs
    /\ UNCHANGED <<remaining, other, entry, event, serviceAvailable, retries, notices, attempt,
                   e, trace>>

\* lines 188-190: open(file_location, 'wb') creates or truncates the file
DownloadOpen ==
    /\ pc = "dl_open"
    /\ \E ok \in BOOLEAN :
         IF ok
         THEN /\ fs' = [fs EXCEPT !.file = TRUE, !.written = 0]
              /\ pc' = "dl_write"
              /\ UNCHANGED <<stack, result, response>>
         ELSE Return(StatusError("Failed to download file", OSError(190))) /\ UNCHANGED fs
    /\ UNCHANGED <<remaining, other, entry, event, serviceAvailable, retries, notices, attempt,
                   e, trace>>

\* lines 191-192: one chunk read and written, or the end of the stream
DownloadWrite ==
    /\ pc = "dl_write"
    /\ \E ok \in BOOLEAN :
         IF remaining = 0
         THEN /\ ok
              /\ pc' = "dl_size"
              /\ UNCHANGED <<fs, remaining, stack, result, response>>
         ELSE IF ok
         THEN /\ fs' = [fs EXCEPT !.written = @ + 1]
              /\ remaining' = remaining - 1
              /\ UNCHANGED <<pc, stack, result, response>>
         ELSE /\ Return(StatusError("Failed to download file", OSError(192)))
              /\ UNCHANGED <<fs, remaining>>
    /\ UNCHANGED <<other, entry, event, serviceAvailable, retries, notices, attempt, e, trace>>

\* lines 194-203
DownloadSize ==
    /\ pc = "dl_size"
    /\ \E ok \in BOOLEAN :
         IF ok
         THEN Return(DownloadSuccess(fs.written))
         ELSE Return(StatusError("Failed to download file", OSError(194)))
    /\ UNCHANGED <<fs, remaining, other, entry, event, serviceAvailable, retries, notices,
                   attempt, e, trace>>

\* what the model registry can come to
RegistryOutcomes ==
    {Response(200, "public"), Response(200, "private"), Exception("RepositoryNotFoundError")}

\* a sync that does not look at the private flag
SyncRepoInfoIgnoringPrivate ==
    /\ pc = "sync_info"
    /\ \E o \in RegistryOutcomes :
         /\ trace' = Logged("repo_info", o)
         /\ IF o.tag = "exception"
            THEN Return(StatusError("Failed to sync model", ExceptionOf(Len(trace) + 1, o)))
            ELSE Return(SyncSuccess)
    /\ UNCHANGED <<fs, remaining, other, entry, event, serviceAvailable, retries, notices,
                   attempt, e>>

\* lines 223-251
SyncRepoInfo ==
    /\ pc = "sync_info"
    /\ \E o \in RegistryOutcomes :
         /\ trace' = Logged("repo_info", o)
         /\ IF o.tag = "exception"
            THEN Return(StatusError("Failed to sync model", ExceptionOf(Len(trace) + 1, o)))
            ELSE IF o.body = "private"
            THEN Return(StatusError("Model is private", NoExc))
            ELSE Return(SyncSuccess)
    /\ UNCHANGED <<fs, remaining, other, entry, event, serviceAvailable, retries, notices,
                   attempt, e>>

-----------------------------------------------------------------------------
(* The sampler normalizer, extract_scheduler *)

\* the longest sampler name that is enumerated, in atoms
MaxSamplerLen == 4

\* A sampler name is a sequence of atoms: a blank, or a word without blanks.
\* Atoms next to each other without a blank between them make one token.
Blank == " "

SchedulerKeywords == {"karras", "exponential", "uniform"}

\* str.lower() on the words that occur
Lower(w) ==
    CASE w = "Karras" -> "karras"
      [] w = "Exponential" -> "exponential"
      [] w = "DPM++" -> "dpm++"
      [] w = "DPM2" -> "dpm2"
      [] w = "2M" -> "2m"
      [] w = "SDE" -> "sde"
      [] w = "Euler" -> "euler"
      [] w = "LMS" -> "lms"
      [] OTHER -> w

\* str.split(): the tokens between runs of blanks, each a sequence of atoms
RECURSIVE Tokens(_)
Tokens(s) ==
    IF s = <<>> THEN <<>>
    ELSE LET rest == Tokens(Tail(s))
         IN  IF Head(s) = Blank THEN rest
             ELSE IF Len(s) > 1 /\ s[2] # Blank
             THEN <<(<<Head(s)>> \o Head(rest))>> \o Tail(rest)
             ELSE <<(<<Head(s)>>)>> \o rest

\* ' '.join(tokens)
RECURSIVE Join(_)
Join(tokens) ==
    IF tokens = <<>> THEN <<>>
    ELSE IF Len(tokens) = 1 THEN tokens[1]
    ELSE tokens[1] \o <<Blank>> \o Join(Tail(tokens))

SamplerSpec(scheduler, base) == [scheduler |-> scheduler, base |-> base]

\* a normalizer that compares the last token with the keywords as it is written
extract_scheduler_case_sensitive(sampler) ==
    LET tokens == Tokens(sampler)
        last == tokens[Len(tokens)]
    IN  IF tokens # <<>> /\ Len(last) = 1 /\ last[1] \in SchedulerKeywords
        THEN SamplerSpec(last[1], Join(SubSeq(tokens, 1, Len(tokens) - 1)))
        ELSE SamplerSpec("", sampler)

\* the algorithm of the sampler normalizer
extract_scheduler(sampler) ==
    LET tokens == Tokens(sampler)
        last == tokens[Len(tokens)]
    IN  IF tokens # <<>> /\ Len(last) = 1 /\ Lower(last[1]) \in SchedulerKeywords
        THEN SamplerSpec(Lower(last[1]), Join(SubSeq(tokens, 1, Len(tokens) - 1)))
        ELSE SamplerSpec("", sampler)

\* the sampler names of test_scheduler_extraction
DPMpp_2M_Karras == <<"DPM++", Blank, "2M", Blank, "Karras">>
Euler_a == <<"Euler", Blank, "a">>
DPMpp_SDE_Exponential == <<"DPM++", Blank, "SDE", Blank, "Exponential">>
LMS == <<"LMS">>
DPM2_a_uniform == <<"DPM2", Blank, "a", Blank, "uniform">>

\* the sampler names the normalizer is called with: those of the tests and
\* every string of up to MaxSamplerLen atoms over a small alphabet
SamplerNames ==
    {DPMpp_2M_Karras, Euler_a, DPMpp_SDE_Exponential, LMS, DPM2_a_uniform}
    \cup UNION {[1..n -> {Blank, "a", "Karras", "uniform"}] : n \in 0..MaxSamplerLen}

ExtractScheduler ==
    /\ pc = "es_call"
    /\ Return(extract_scheduler(event.sampler_name))
    /\ UNCHANGED <<fs, remaining, other, entry, event, serviceAvailable, retries, notices,
                   attempt, e, trace>>

-----------------------------------------------------------------------------
(* validate_payload called on its own *)

\* lines 105-127
ValidatePayload ==
    /\ pc = "vp_call"
    /\ Return(validate_payload(event, event.endpoint))
    /\ UNCHANGED <<fs, remaining, other, entry, event, serviceAvailable, retries, notices,
                   attempt, e, trace>>

-----------------------------------------------------------------------------
(* The specification *)

\* the arguments of a direct call of validate_payload: a payload and an endpoint
PayloadEvents ==
    {Event("dict", "dict", "POST", TRUE, ep, p) :
         ep \in Endpoints \cup {EP_IMG2IMG, EP_INTERROGATE}, p \in {"ok", "bad"}}
    \cup {[Event("dict", "dict", "POST", TRUE, ep, "ok")
              EXCEPT !.sampler_name = s, !.scheduler = sch] :
             ep \in {EP_TXT2IMG, EP_IMG2IMG},
             s \in {DPMpp_2M_Karras, Euler_a},
             sch \in {"", "uniform"}}

\* the arguments of a direct call of automatic_functions or helper_functions:
\* an API descriptor and a payload, both dicts
ArgEvents == {ev \in Events : ev.input = "dict" /\ ev.api = "dict" /\ ev.payload # "absent"}

DefaultEvent == Event("dict", "dict", "POST", TRUE, EP_TXT2IMG, "ok")

Entries == {"handler", "wait_for_service", "send_get_request", "send_post_request",
            "automatic_functions", "helper_functions", "validate_payload",
            "extract_scheduler"}

FirstPc(f) ==
    CASE f = "handler" -> "handler_try"
      [] f = "wait_for_service" -> "wfs_get"
      [] f = "send_get_request" -> "get_send"
      [] f = "send_post_request" -> "post_send"
      [] f = "automatic_functions" -> "af_route"
      [] f = "helper_functions" -> "hf_route"
      [] f = "validate_payload" -> "vp_call"
      [] f = "extract_scheduler" -> "es_call"

Init ==
    /\ entry \in Entries
    /\ event \in (CASE entry = "handler" -> Events
                    [] entry \in {"automatic_functions", "helper_functions"} -> ArgEvents
                    [] entry = "validate_payload" -> PayloadEvents
                    [] entry = "extract_scheduler" ->
                         {[DefaultEvent EXCEPT !.sampler_name = s] : s \in SamplerNames}
                    [] OTHER -> {DefaultEvent})
    /\ serviceAvailable \in BOOLEAN
    /\ stack = <<entry>>
    /\ pc = FirstPc(entry)
    /\ retries = 0
    /\ notices = 0
    /\ attempt = 0
    /\ response = NoResponse
    /\ e = NoExc
    /\ fs \in {[dir |-> d, file |-> FALSE, written |-> 0] : d \in BOOLEAN}
    /\ remaining = 0
    /\ trace = <<>>
    /\ result = NoResult
    /\ other = NoCall

Next ==
    \/ HandlerTry
    \/ HandlerExcept
    \/ WaitProbe
    \/ WaitSleep
    \/ SendGet
    \/ PostAttempt
    \/ PostSleep
    \/ AfRoute
    \/ AfJson
    \/ HfRoute
    \/ DownloadGet
    \/ DownloadMkdir
    \/ DownloadOpen
    \/ DownloadWrite
    \/ DownloadSize
    \/ SyncRepoInfo
    \/ ValidatePayload
    \/ ExtractScheduler

Spec == Init /\ [][Next]_vars

\* a call that can take a step takes one: the interpreter does not stop
FairSpec == Spec /\ WF_vars(Next)


-----------------------------------------------------------------------------
(* Two calls at the same time.  Every name a function assigns is a local of
   the call; the module's own names (session, logger, the constants) are
   bound once at import and not assigned again. *)

\* the locals of the running call
Frame ==
    [entry |-> entry, event |-> event, stack |-> stack, pc |-> pc, retries |-> retries,
     notices |-> notices, attempt |-> attempt, response |-> response, e |-> e,
     trace |-> trace, result |-> result]

FirstFrame(f, ev) ==
    [entry |-> f, event |-> ev, stack |-> <<f>>, pc |-> FirstPc(f), retries |-> 0,
     notices |-> 0, attempt |-> 0, response |-> NoResponse, e |-> NoExc,
     trace |-> <<>>, result |-> NoResult]

\* a scheduler under which `retries` and `attempt` are one pair of counters
\* for both calls
SwitchSharingCounters ==
    /\ other # NoCall
    /\ other' = Frame
    /\ entry' = other.entry
    /\ event' = other.event
    /\ stack' = other.stack
    /\ pc' = other.pc
    /\ notices' = other.notices
    /\ response' = other.response
    /\ e' = other.e
    /\ trace' = other.trace
    /\ result' = other.result
    /\ UNCHANGED <<retries, attempt, serviceAvailable, fs, remaining>>

\* the other call runs on: its locals come in, those of the running call are
\* put aside
Switch ==
    /\ other # NoCall
    /\ other' = Frame
    /\ entry' = other.entry
    /\ event' = other.event
    /\ stack' = other.stack
    /\ pc' = other.pc
    /\ retries' = other.retries
    /\ notices' = other.notices
    /\ attempt' = other.attempt
    /\ response' = other.response
    /\ e' = other.e
    /\ trace' = other.trace
    /\ result' = other.result
    /\ UNCHANGED <<serviceAvailable, fs, remaining>>

\* the calls that run side by side: dispatches, and the probe and forwarding
\* functions called on their own
ConcEntries == {"handler", "wait_for_service", "send_get_request", "send_post_request"}

ConcEvents(f) ==
    IF f = "handler"
    THEN {Event("dict", "dict", "POST", TRUE, EP_TXT2IMG, "ok"),
          Event("dict", "dict", "GET", TRUE, EP_INVALID, "bad"),
          Event("absent", "absent", "absent", FALSE, <<>>, "absent")}
    ELSE {DefaultEvent}

ConcInit ==
    /\ entry \in ConcEntries
    /\ event \in ConcEvents(entry)
    /\ serviceAvailable \in BOOLEAN
    /\ stack = <<entry>>
    /\ pc = FirstPc(entry)
    /\ retries = 0
    /\ notices = 0
    /\ attempt = 0
    /\ response = NoResponse
    /\ e = NoExc
    /\ fs = [dir |-> FALSE, file |-> FALSE, written |-> 0]
    /\ remaining = 0
    /\ trace = <<>>
    /\ result = NoResult
    /\ other \in {FirstFrame(f, ev) : f \in ConcEntries, ev \in UNION {ConcEvents(g) : g \in ConcEntries}}
    /\ other.event \in ConcEvents(other.entry)

ConcNext ==
    \/ HandlerTry
    \/ HandlerExcept
    \/ WaitProbe
    \/ WaitSleep
    \/ SendGet
    \/ PostAttempt
    \/ PostSleep
    \/ Switch

ConcSpec == ConcInit /\ [][ConcNext]_vars

-----------------------------------------------------------------------------
(* Properties *)

Range(q) == {q[i] : i \in 1..Len(q)}

Done == pc = "done"

Dispatch == entry = "handler"

\* the value is a dict with the key 'error'
HasErrorKey(v) == "kind" \in DOMAIN v /\ v.kind = "error"

ErrorResult == result.tag = "return" /\ HasErrorKey(result.value)

\* the requests of one kind, in order, each with its place in the trace
Indices(op) == {i \in 1..Len(trace) : trace[i].op = op}

Count(op) == Cardinality(Indices(op))

Failed(i) == trace[i].out.tag = "exception"

Answered(i) == trace[i].out.tag = "response"

\* the i-th request of a kind: its place in the trace
Nth(op, n) == CHOOSE i \in Indices(op) : Cardinality({j \in Indices(op) : j <= i}) = n

Sleeps(seconds) == {i \in Indices("sleep") : trace[i].out.status = seconds}

Active(f) == f \in Range(stack)

\* envelope, API descriptor and payload all satisfy their schemas
Valid(ev) ==
    /\ ev.input = "dict"
    /\ InputErrors(ev) = <<>>
    /\ ApiErrors(ev) = <<>>
    /\ validate_payload(ev, ev.endpoint) \in {None, validate(<<>>, ev)}

ForwardRouted(ev) == Valid(ev) /\ ~startswith_v1(ev.endpoint)

\* the job of test_handler_direct.py, test 3
Txt2ImgJob == Event("dict", "dict", "POST", TRUE, EP_TXT2IMG, "ok")

\* the job of test_handler_direct.py, test 1
NoEndpointJob == Event("dict", "dict", "POST", FALSE, <<>>, "absent")

(* C1: handler returns a result to its caller for every job and never raises;
   an exception raised in any step comes back as an error result carrying it. *)
C1_HandlerNeverRaises ==
    /\ [](Dispatch =>
            /\ result.tag # "raise"
            /\ Done => result.tag = "return"
            /\ (Done /\ e # NoExc) => result.value = ErrorDict(str(e)))
    /\ (Dispatch ~> Done)

C1_Witness ==
    /\ Dispatch /\ Done
    /\ e = KeyError("input")
    /\ result = Returned(ErrorDict(str(e)))

(* C2: a job whose API descriptor has no endpoint gets an error result, and
   the dispatch makes no outbound call of any kind. *)
C2_NoEndpointNoNetwork ==
    (Dispatch /\ ~event.has_endpoint) =>
        /\ trace = <<>>
        /\ Done => ErrorResult

C2_Witness ==
    /\ Dispatch /\ Done
    /\ event = NoEndpointJob
    /\ ErrorResult
    /\ trace = <<>>

\* the dispatch ended by returning a validation result as its error
ValidationStop ==
    /\ ErrorResult
    /\ "tag" \in DOMAIN result.value.error

(* C3: a job whose envelope, API descriptor and payload satisfy their schemas
   is not stopped with a validation error: the dispatch reaches the routing step. *)
C3_ValidJobIsRouted ==
    (Dispatch /\ Done /\ Valid(event)) => ~ValidationStop

(* C4: in one dispatch the probe runs exactly once for a forwarding-routed
   endpoint and never otherwise, and no forwarding request precedes its return. *)
C4_ProbeOnceBeforeForward ==
    Dispatch =>
        /\ Cardinality({i \in Indices("probe") : Answered(i)}) <= 1
        /\ Indices("probe") # {} => ForwardRouted(event)
        /\ \A i \in Indices("GET") \cup Indices("POST") :
               \E j \in Indices("probe") : j < i /\ Answered(j)
        /\ (Done /\ ForwardRouted(event)) =>
               Cardinality({i \in Indices("probe") : Answered(i)}) = 1

(* C5: wait_for_service returns exactly when a probe gets a response, of any
   status; every probe before the last one failed at network level. *)
C5_ProbeUntilAnyResponse ==
    /\ \A i \in Indices("probe") :
           (\E j \in Indices("probe") : i < j) => Failed(i)
    /\ (Indices("probe") # {} /\ ~Active("wait_for_service")) <=>
           (\E i \in Indices("probe") : Answered(i))
    /\ (entry = "wait_for_service" /\ Done) => result = Returned(None)

C5_Witness ==
    /\ entry = "wait_for_service" /\ Done
    /\ Count("probe") = 3
    /\ Failed(Nth("probe", 2))
    /\ trace[Nth("probe", 3)].out.status = 500
    /\ result = Returned(None)

(* C6: with the backing service down, the dispatch of a valid POST
   sdapi/v1/txt2img job comes back, and with an error result. *)
C6_ServiceDownFailsGracefully ==
    (Dispatch /\ event = Txt2ImgJob /\ ~serviceAvailable) ~> (Done /\ ErrorResult)

C6_Witness ==
    /\ Dispatch /\ Done
    /\ event = Txt2ImgJob
    /\ ~serviceAvailable
    /\ ErrorResult

\* what send_post_request gave its caller
PostResult == IF entry = "send_post_request" THEN result.value ELSE response

PostOver == Indices("POST") # {} /\ ~Active("send_post_request")

(* C7: a POST whose first two attempts raise is attempted a third time; when
   that one succeeds its response is what comes back, after exactly three
   attempts and two sleeps of 1, one after each failure. *)
C7_ThirdAttemptSucceeds ==
    (PostOver /\ Count("POST") >= 2
        /\ Failed(Nth("POST", 1)) /\ Failed(Nth("POST", 2))) =>
        /\ Count("POST") = 3
        /\ Answered(Nth("POST", 3)) =>
             /\ PostResult = ResponseOf(Nth("POST", 3), trace[Nth("POST", 3)].out)
             /\ Cardinality(Sleeps(1)) = 2
             /\ \A n \in 1..2 : Nth("POST", n) + 1 \in Sleeps(1)
                                /\ Nth("POST", n) + 2 = Nth("POST", n + 1)
             /\ Nth("POST", 3) = Len(trace)

C7_Witness ==
    /\ entry = "send_post_request" /\ Done
    /\ Count("POST") = 3
    /\ Failed(Nth("POST", 1)) /\ Failed(Nth("POST", 2)) /\ Answered(Nth("POST", 3))
    /\ result = Returned(ResponseOf(Len(trace), trace[Len(trace)].out))
    /\ Cardinality(Sleeps(1)) = 2

(* C8: after three failed attempts there is no fourth POST and no sleep: the
   exception of the third attempt is raised, and a dispatch turns it into an
   error result. *)
C8_ThreeFailuresRaiseLast ==
    /\ Count("POST") <= POST_RETRIES
    /\ (Count("POST") = 3 /\ \A n \in 1..3 : Failed(Nth("POST", n))) =>
         LET last == ExceptionOf(Nth("POST", 3), trace[Nth("POST", 3)].out) IN
         /\ Nth("POST", 3) = Len(trace)
         /\ Cardinality(Sleeps(1)) = 2
         /\ IF Dispatch
            THEN \/ pc = "handler_except" /\ e = last
                 \/ Done /\ result = Returned(ErrorDict(str(last)))
            ELSE Done /\ result = Raised(last)

C8_Witness ==
    /\ entry = "automatic_functions" /\ Done
    /\ Count("POST") = 3
    /\ \A n \in 1..3 : Failed(Nth("POST", n))
    /\ result.tag = "raise"
    /\ result.exc.at = Len(trace)

(* C9: a forwarding GET is sent once; when it raises there is no second call
   and no sleep, the exception leaves the forwarder, and a dispatch ends with
   an error result. *)
C9_GetAttemptedOnce ==
    /\ Count("GET") <= 1
    /\ (Count("GET") = 1 /\ Failed(Nth("GET", 1))) =>
         LET raised == ExceptionOf(Nth("GET", 1), trace[Nth("GET", 1)].out) IN
         /\ Nth("GET", 1) = Len(trace)
         /\ Sleeps(1) = {}
         /\ IF Dispatch
            THEN \/ pc = "handler_except" /\ e = raised
                 \/ Done /\ result = Returned(ErrorDict(str(raised)))
            ELSE Done /\ result = Raised(raised)

C9_Witness ==
    /\ entry = "automatic_functions" /\ Done
    /\ event.method = "GET"
    /\ Count("GET") = 1
    /\ Failed(Nth("GET", 1))
    /\ result.tag = "raise"

(* C10: a response whose body does not parse gives an error result holding
   the response text; nothing is raised and the request is not sent again. *)
C10_UnparseableBodyIsError ==
    (~Active("send_get_request") /\ ~Active("send_post_request")
        /\ response # NoResponse /\ response.body = "text") =>
        /\ response.id = Len(trace)
        /\ Done =>
             /\ result = Returned(ErrorDict(
                    [msg |-> "Invalid response received from Automatic1111 API",
                     text |-> response.id]))
        /\ ~Done => pc = "af_json"

C10_Witness ==
    /\ entry = "automatic_functions" /\ Done
    /\ event.method = "POST"
    /\ response.body = "text"
    /\ response.status = 500
    /\ Count("POST") = 2
    /\ ErrorResult
    /\ result.value.error.text = Len(trace)


(* C11: an endpoint with a leading '/' is handled as its slash-free form: the
   payload schema is selected for, and the request is sent to, the stripped
   endpoint. *)
C11_LeadingSlashNormalized ==
    /\ (entry = "validate_payload" /\ Done) =>
           result = Returned(validate_payload(event, lstrip_slash(event.endpoint)))
    /\ \A i \in Indices("GET") \cup Indices("POST") :
           trace[i].url = Url(lstrip_slash(event.endpoint))

\* requests to the backing service
BackingOps == Indices("probe") \cup Indices("GET") \cup Indices("POST")

\* requests of the local helpers
HelperOps == Indices("download") \cup Indices("repo_info")

HelperRouted ==
    \/ entry = "helper_functions"
    \/ Dispatch /\ event.has_endpoint /\ startswith_v1(event.endpoint)

ForwardingRouted ==
    \/ entry = "automatic_functions"
    \/ Dispatch /\ event.has_endpoint /\ ~startswith_v1(event.endpoint)

(* C12: one call never runs both the helper router and the probe or the
   forwarder; a helper-routed call sends nothing to the backing service, a
   forwarding-routed one runs no helper. *)
C12_RoutesExclusive ==
    /\ BackingOps = {} \/ HelperOps = {}
    /\ ~(Active("helper_functions")
           /\ (Active("wait_for_service") \/ Active("automatic_functions")))
    /\ HelperRouted => BackingOps = {}
    /\ ForwardingRouted => HelperOps = {}

C12_Witness ==
    /\ entry = "helper_functions" /\ Done
    /\ event.endpoint = EP_DOWNLOAD
    /\ HelperOps # {}
    /\ BackingOps = {}
    /\ result.value.status = "success"

\* the job of test_handler_direct.py, test 2
InvalidEndpointJob == Event("dict", "dict", "POST", TRUE, EP_INVALID, "ok")

(* C13: the dispatch of a job whose endpoint is not a known one has no effect
   downstream (no probe, no request, no download, no registry query, no file)
   and ends with an error result. *)
C13_UnknownEndpointNoEffect ==
    (Dispatch /\ event.has_endpoint /\ lstrip_slash(event.endpoint) \notin KnownEndpoints) =>
        /\ trace = <<>>
        /\ ~fs.file
        /\ stack \in {<<>>, <<"handler">>}
        /\ Done => ErrorResult

C13_Witness ==
    /\ Dispatch /\ Done
    /\ event = InvalidEndpointJob
    /\ trace = <<>>
    /\ ErrorResult

\* the endpoints a payload schema is registered for
RegisteredSchema == {EP_TXT2IMG, EP_IMG2IMG, EP_INTERROGATE, EP_SYNC, EP_DOWNLOAD}

(* C14: validate_payload validates against the schema of the endpoint when one
   is registered and returns None otherwise; the dispatch of a job whose
   payload violates its schema ends with an error result and runs neither the
   helper router, the probe nor the forwarder. *)
C14_PayloadSchemaByEndpoint ==
    /\ (entry = "validate_payload" /\ Done) =>
         /\ result.tag = "return"
         /\ IF event.endpoint \in RegisteredSchema
            THEN result.value.tag =
                     (IF event.payload = "bad" THEN "errors" ELSE "validated_input")
            ELSE result.value = None
    /\ (Dispatch /\ event.has_endpoint /\ event.endpoint \in RegisteredSchema
          /\ event.payload = "bad") =>
         /\ trace = <<>>
         /\ stack \in {<<>>, <<"handler">>}
         /\ Done => ErrorResult

C14_Witness ==
    /\ entry = "validate_payload" /\ Done
    /\ event.endpoint = EP_DOWNLOAD
    /\ event.payload = "bad"
    /\ result.value.tag = "errors"

\* the keys of a value a call returns: an error dict, the parsed document of
\* the backing service (which names an 'error' itself when it answers with an
\* error status), or a helper's status document
Keys(v) ==
    CASE v.kind = "error" -> {"error"}
      [] v.kind = "json" ->
           IF trace[v.of].out.status >= 400 THEN {"error", "detail"}
           ELSE {"images", "parameters", "info"}
      [] v.kind = "status" -> DOMAIN v \ {"kind", "exc"}

\* the result document the host makes of the handler's return value: its
\* 'error' entry as error, everything else as output
HostResult(v) ==
    (IF "error" \in Keys(v) THEN {"error"} ELSE {})
    \cup (IF Keys(v) \ {"error"} # {} THEN {"output"} ELSE {})

(* C15: every dispatch ends with a result document that holds exactly one of
   the keys output and error. *)
C15_ExactlyOneOfOutputError ==
    (Dispatch /\ Done) =>
        /\ result.tag = "return"
        /\ Cardinality(HostResult(result.value)) = 1

C15_Witness ==
    /\ Dispatch /\ Done
    /\ event = Txt2ImgJob
    /\ serviceAvailable
    /\ HostResult(result.value) = {"error"}

\* a helper reported that its job failed
HelperFailed ==
    /\ result.tag = "return"
    /\ result.value.kind = "status"
    /\ result.value.status = "error"

(* C16: whenever a job fails, the result that handler returns carries the
   error field; here for the value handler returns unchanged from
   helper_functions (line 326) when a download or a registry sync failed. *)
C16_FailuresCarryErrorField ==
    (entry \in {"handler", "helper_functions"} /\ Done /\ HelperFailed) =>
        "error" \in Keys(result.value)

\* helper_functions called with the download endpoint and a complete payload
DownloadCall ==
    /\ entry = "helper_functions"
    /\ event.has_endpoint
    /\ event.endpoint = EP_DOWNLOAD
    /\ event.payload = "ok"

(* C17: download_file_from_url never lets a failure out: a failed request, an
   error status or a failed step on disk ends in a status=error result with a
   message and no file path, and status=success with the path and the size
   means that the request was answered without an error status, the
   directory and the file exist and every chunk was written. *)
C17_DownloadReportsEveryFailure ==
    DownloadCall =>
        /\ result.tag # "raise"
        /\ e = NoExc
        /\ Count("download") <= 1
        /\ Done =>
             /\ result.tag = "return"
             /\ result.value.kind = "status"
             /\ Count("download") = 1
             /\ result.value.status = "success" =>
                  /\ Answered(Nth("download", 1))
                  /\ trace[Nth("download", 1)].out.status < 400
                  /\ fs.dir /\ fs.file /\ remaining = 0
                  /\ result.value.file_path = "file_path/file_name"
                  /\ result.value.file_size_mb = fs.written
             /\ result.value.status # "success" =>
                  /\ result.value.status = "error"
                  /\ result.value.message = "Failed to download file"
                  /\ result.value.exc # NoExc
                  /\ DOMAIN result.value \cap {"file_path", "file_size_mb"} = {}
             /\ (\/ Failed(Nth("download", 1))
                 \/ trace[Nth("download", 1)].out.status >= 400
                 \/ ~fs.dir \/ ~fs.file \/ remaining > 0) =>
                  result.value.status = "error"
             /\ (Failed(Nth("download", 1)) \/ trace[Nth("download", 1)].out.status >= 400) =>
                  ~fs.file

C17_Witness ==
    /\ DownloadCall /\ Done
    /\ result.tag = "return"
    /\ result.value.status = "error"
    /\ result.value.exc = OSError(192)
    /\ fs.file /\ fs.written = 1 /\ remaining = 1

\* helper_functions called with the sync endpoint and a model id
SyncCall ==
    /\ entry = "helper_functions"
    /\ event.has_endpoint
    /\ event.endpoint = EP_SYNC
    /\ event.payload = "ok"

(* C18: sync_huggingface_model asks the registry once and does nothing else;
   a private model and a failed registry call are both reported as
   status=error, never raised, and any other model as status=success with
   its identifier, download count and like count. *)
C18_SyncReportsPrivateAndFailure ==
    SyncCall =>
        /\ result.tag # "raise"
        /\ e = NoExc
        /\ Indices("repo_info") = 1..Len(trace)
        /\ Len(trace) <= 1
        /\ ~fs.file
        /\ Done =>
             /\ Len(trace) = 1
             /\ result.tag = "return"
             /\ result.value.kind = "status"
             /\ Failed(1) =>
                  /\ result.value.status = "error"
                  /\ result.value.message = "Failed to sync model"
                  /\ result.value.exc.type = trace[1].out.type
             /\ (Answered(1) /\ trace[1].out.body = "private") =>
                  /\ result.value.status = "error"
                  /\ result.value.message = "Model is private"
                  /\ "model_info" \notin DOMAIN result.value
             /\ (Answered(1) /\ trace[1].out.body # "private") =>
                  /\ result.value.status = "success"
                  /\ result.value.model_info = {"id", "downloads", "likes"}

C18_Witness ==
    /\ SyncCall /\ Done
    /\ Len(trace) = 1 /\ Answered(1) /\ trace[1].out.body = "private"
    /\ result.tag = "return"
    /\ result.value.status = "error"

\* the string without its blanks at the end
RECURSIVE RTrim(_)
RTrim(s) ==
    IF s # <<>> /\ s[Len(s)] = Blank THEN RTrim(SubSeq(s, 1, Len(s) - 1)) ELSE s

\* the string ends, blanks aside, in a word of its own that is a keyword in
\* some spelling of upper and lower case
EndsInKeyword(s) ==
    LET t == RTrim(s)
    IN  /\ t # <<>>
        /\ Lower(t[Len(t)]) \in SchedulerKeywords
        /\ Len(t) = 1 \/ t[Len(t) - 1] = Blank

\* no blank at either end and no two blanks in a row
SingleSpaced(s) ==
    /\ s # <<>> => s[1] # Blank /\ s[Len(s)] # Blank
    /\ \A i \in 1..(Len(s) - 1) : ~(s[i] = Blank /\ s[i + 1] = Blank)

NormalizerCalled == entry = "extract_scheduler" /\ Done /\ result.tag = "return"

(* C19: for every sampler string the normalizer returns the lowercased keyword
   and the remaining tokens joined by single blanks, trimmed, when the last
   token is a scheduler keyword in any case, and the empty scheduler with the
   string unchanged otherwise; the sampler names of the tests come out as the
   tests expect. *)
C19_SamplerNormalizer ==
    NormalizerCalled =>
        LET s == event.sampler_name
            t == RTrim(s)
            out == result.value
        IN  /\ EndsInKeyword(s) =>
                 /\ out.scheduler = Lower(t[Len(t)])
                 /\ SingleSpaced(out.base)
                 /\ Tokens(out.base) = Tokens(SubSeq(t, 1, Len(t) - 1))
            /\ ~EndsInKeyword(s) => out = SamplerSpec("", s)
            /\ s = DPMpp_2M_Karras => out = SamplerSpec("karras", <<"DPM++", Blank, "2M">>)
            /\ s = DPMpp_SDE_Exponential => out = SamplerSpec("exponential", <<"DPM++", Blank, "SDE">>)
            /\ s = DPM2_a_uniform => out = SamplerSpec("uniform", <<"DPM2", Blank, "a">>)
            /\ s = Euler_a => out = SamplerSpec("", Euler_a)
            /\ s = LMS => out = SamplerSpec("", LMS)
            /\ s = <<"Karras">> => out = SamplerSpec("karras", <<>>)

C19_Witness ==
    /\ NormalizerCalled
    /\ event.sampler_name = <<"a", Blank, Blank, "Karras">>
    /\ result.value = SamplerSpec("karras", <<"a">>)

(* C20: payload validation of a forwarding endpoint whose payload names a
   sampler puts the scheduler derived from the sampler name into the payload
   when the caller gave none, and leaves a scheduler the caller gave as it
   is. *)
C20_SchedulerDerivedUnlessGiven ==
    (/\ entry = "validate_payload" /\ Done
     /\ event.endpoint \in {EP_TXT2IMG, EP_IMG2IMG}
     /\ event.payload = "ok"
     /\ event.sampler_name # <<>>) =>
        /\ result.tag = "return"
        /\ result.value.tag = "validated_input"
        /\ result.value.validated_input.scheduler =
               IF event.scheduler # "" THEN event.scheduler
               ELSE extract_scheduler(event.sampler_name).scheduler

ProbeCall == entry = "wait_for_service"

ProbeAnswered == \E i \in Indices("probe") : Answered(i)

(* C21: wait_for_service goes on for as long as its probes fail at network
   level, whatever their number: it has returned exactly when a probe was
   answered, it never raises, a sleep is always followed by the next probe,
   it returns when the service comes to answer, and it never returns while
   the service refuses every connection. *)
C21_ProbeLoopUnbounded ==
    /\ [](ProbeCall =>
            /\ Done <=> ProbeAnswered
            /\ result.tag # "raise" /\ e = NoExc
            /\ ~Done => (result = NoResult /\ Active("wait_for_service"))
            /\ Count("probe") = retries + (IF ProbeAnswered THEN 1 ELSE 0))
    /\ \A n \in 1..MaxProbeFailures :
         (ProbeCall /\ pc = "wfs_sleep" /\ retries = n)
             ~> (Count("probe") = n + 1 \/ (pc = "wfs_get" /\ retries = MaxProbeFailures))
    /\ (ProbeCall /\ serviceAvailable) ~> (Done /\ result = Returned(None))
    /\ [](ProbeCall /\ ~serviceAvailable => ~Done)

C21_Witness ==
    /\ ProbeCall /\ ~serviceAvailable
    /\ retries = MaxProbeFailures
    /\ Count("probe") = MaxProbeFailures
    /\ \A i \in Indices("probe") : Failed(i)
    /\ Active("wait_for_service") /\ result = NoResult

\* the requests of one kind in the trace of a call
OpsOf(f, op) == {i \in 1..Len(f.trace) : f.trace[i].op = op}

\* what handler returns for a job that it answers without calling out
HandlerAlone(ev) ==
    LET o == handler_try(ev)
    IN  IF o.op = "return" THEN Returned(o.value) ELSE Returned(ErrorDict(str(o.exc)))

\* the call is where, and has returned what, it would with no other call
\* around, given the answers its own requests got
AsAlone(f) ==
    CASE f.entry = "handler" ->
           /\ f.trace = <<>>
           /\ f.pc = "done" => f.result = HandlerAlone(f.event)
      [] f.entry = "wait_for_service" ->
           /\ f.retries = Cardinality({i \in OpsOf(f, "probe") : f.trace[i].out.tag = "exception"})
           /\ f.pc = "done" <=> (\E i \in OpsOf(f, "probe") : f.trace[i].out.tag = "response")
           /\ f.pc = "done" => f.result = Returned(None)
           /\ f.result.tag # "raise"
      [] f.entry = "send_get_request" ->
           /\ Len(f.trace) <= 1
           /\ f.pc = "done" =>
                /\ Len(f.trace) = 1
                /\ f.result = IF f.trace[1].out.tag = "response"
                              THEN Returned(ResponseOf(1, f.trace[1].out))
                              ELSE Raised(ExceptionOf(1, f.trace[1].out))
      [] f.entry = "send_post_request" ->
           /\ f.attempt = Cardinality(OpsOf(f, "sleep"))
           /\ Cardinality(OpsOf(f, "POST")) <= POST_RETRIES
           /\ f.pc = "done" =>
                LET last == Len(f.trace)
                IN  /\ last \in OpsOf(f, "POST")
                    /\ \A i \in OpsOf(f, "POST") \ {last} : f.trace[i].out.tag = "exception"
                    /\ IF f.trace[last].out.tag = "response"
                       THEN f.result = Returned(ResponseOf(last, f.trace[last].out))
                       ELSE /\ Cardinality(OpsOf(f, "POST")) = POST_RETRIES
                            /\ f.result = Raised(ExceptionOf(last, f.trace[last].out))

(* C22: of two calls running at the same time, under every interleaving of
   their steps, each returns what it would return alone against the answers
   its own requests got; the probe's retry counter and the POST attempt
   counter count the call's own failures only. *)
C22_ConcurrentCallsIndependent ==
    other # NoCall => (AsAlone(Frame) /\ AsAlone(other))

C22_Witness ==
    /\ other # NoCall
    /\ entry = "send_post_request" /\ other.entry = "send_post_request"
    /\ pc = "done" /\ other.pc = "done"
    /\ result.tag = "raise" /\ attempt = 2
    /\ other.result.tag = "return" /\ other.attempt = 1

(* C23: no step of a dispatch changes the job handed to handler: the API
   descriptor and the payload are after the call what the caller passed. *)
C23_JobUnchanged == [][Dispatch => event' = event]_vars

C23_Witness ==
    /\ Dispatch /\ Done
    /\ event = Event("dict", "dict", "POST", TRUE, EP_SLASH_TXT2IMG, "ok")
    /\ result.tag = "return"

(* C24: the POST loop goes on after an exception only: a response of any
   status and any body on attempt k ends it after exactly k attempts and k-1
   sleeps of 1, every attempt before it raised, and there are never more than
   three attempts. *)
C24_PostRetriesOnExceptionsOnly ==
    /\ \A i \in Indices("POST") :
           Answered(i) => (~Active("send_post_request") /\ \A j \in Indices("POST") : j <= i)
    /\ Active("send_post_request") =>
           /\ \A i \in Indices("POST") : Failed(i)
           /\ Cardinality(Sleeps(1)) = attempt
           /\ Count("POST") = attempt + (IF pc = "post_sleep" THEN 1 ELSE 0)
    /\ PostOver =>
           LET k == Count("POST") IN
           /\ k <= POST_RETRIES
           /\ \A n \in 1..(k - 1) : Failed(Nth("POST", n))
           /\ Failed(Nth("POST", k)) => k = POST_RETRIES
           /\ Cardinality(Sleeps(1)) = k - 1
           /\ Answered(Nth("POST", k)) =>
                  PostResult = ResponseOf(Nth("POST", k), trace[Nth("POST", k)].out)

C24_Witness ==
    /\ entry = "automatic_functions" /\ Done
    /\ event.method = "POST"
    /\ Count("POST") = 2
    /\ Failed(Nth("POST", 1))
    /\ Answered(Nth("POST", 2))
    /\ trace[Nth("POST", 2)].out.status = 500
    /\ trace[Nth("POST", 2)].out.body = "json"
    /\ Cardinality(Sleeps(1)) = 1
    /\ result = Returned(Json(response))

\* the remote answered the download request, and not with an error status
DownloadAccepted ==
    \E i \in Indices("download") : Answered(i) /\ trace[i].out.status < 400

(* C25: download_file_from_url touches the file system only after the remote
   answered with a success status: after a failed connection or an error
   status no directory is made and no file is opened or written; and when
   writing a chunk fails, the result is status=error although the file is
   there on disk. *)
C25_DiskOnlyAfterSuccessStatus ==
    /\ [][(DownloadCall /\ fs' # fs) => DownloadAccepted]_vars
    /\ [](DownloadCall /\ Done /\ ~DownloadAccepted =>
             /\ ~fs.file /\ fs.written = 0
             /\ result.value.status = "error"
             /\ result.value.exc.type \in {"ConnectionError", "HTTPError"})
    /\ [](DownloadCall /\ Done /\ fs.file /\ remaining > 0 =>
             /\ DownloadAccepted
             /\ fs.dir
             /\ result.value.status = "error"
             /\ result.value.exc = OSError(192))

C25_Witness ==
    /\ DownloadCall /\ Done
    /\ DownloadAccepted
    /\ result.value.status = "error"
    /\ result.value.exc = OSError(192)
    /\ fs.dir /\ fs.file /\ fs.written = 0
    /\ remaining = MaxChunks

====
